---- MODULE Spec2Model ----
(***************************************************************************)
(* The relevance pipeline of greenvalue-ai's RAG layer:                    *)
(*   CrossEncoderReranker  (reference_files/rag/ragfolder/reranker.txt)    *)
(*   CorrectiveRAG         (same file, second half)                        *)
(*   RetrievalEngine       (unnamed/part_000)                              *)
(*                                                                         *)
(* Documents are identified by small integers; a list of documents is a    *)
(* sequence of identifiers, and the metadata dictionary of every document  *)
(* is a function from key names to numbers (a key that was never written   *)
(* is not in the function's domain).  External collaborators (the search   *)
(* index, the FlashRank model, the cross-encoder model, the LLM used as    *)
(* relevance oracle) are nondeterministic: each call either raises or      *)
(* returns a value drawn from a bounded set.                               *)
(*                                                                         *)
(* Each entry point has a specification of its own (SpecFilter,            *)
(* SpecRerank, SpecRetrieve): the three share no state but the documents.  *)
(***************************************************************************)
EXTENDS Integers, Sequences, FiniteSets, TLC

VARIABLES
    metadata,      \* doc id -> metadata dictionary (Document.metadata)
    \* ---- CorrectiveRAG.filter_documents, one invocation
    fPc,           \* "idle" | "scoring" | "returned"
    fDocs,         \* the argument docs
    fMin,          \* the argument min_score
    fScored,       \* the local scored_docs: sequence of [doc, score]
    fResult,       \* the returned list
    fFallback,     \* TRUE iff the `if not filtered and docs` branch ran
    oracleLog,     \* history of the check_relevance calls of this invocation:
                   \* the document, the llm.invoke outcome, the verdict returned
    \* ---- CrossEncoderReranker, one instance and its current invocation
    available,     \* self.available
    kPc,           \* "idle" | "predict" | "returned" | "raised"
    kDocs,         \* the argument docs
    kTopK,         \* the argument top_k
    kScores,       \* what self.model.predict returned (<<>> if not called)
    kResult,       \* the returned list
    predictCalls,  \* number of self.model.predict calls of this invocation
    predictFailed, \* TRUE iff self.model.predict raised in this invocation
    metaAtCall,    \* metadata as it was when rerank was entered
    \* ---- RetrievalEngine, one instance and its current invocation
    flashrank,     \* self.flashrank is not None
    topKRerank,    \* self.config.top_k_rerank
    rPc,           \* "idle" | "flash" | "cross" | "expand" | "returned" | "raised"
    rUseRerank,    \* the argument use_rerank
    rUseParent,    \* the argument use_parent
    rDocs,         \* the local docs
    rTrace,        \* the stages invoked so far, in order
    flashIn,       \* the docs handed to _flashrank_rerank
    flashOutcome,  \* "none" | "ok" | "error"
    rResult,       \* the returned list
    rCandidates,   \* what retriever.invoke returned
    expandIn,      \* the docs handed to store.expand_to_parents
    \* ---- a second invocation running at the same time as the first
    fOther,        \* the locals of a second filter_documents invocation:
                   \* [pc, docs, min, scored, log, result]
    kOther         \* the locals of a second rerank invocation:
                   \* [pc, docs, topK, scores, result]

filterVars == <<fPc, fDocs, fMin, fScored, fResult, fFallback, oracleLog>>
rerankVars == <<kPc, kDocs, kTopK, kScores, kResult, predictCalls,
                predictFailed, metaAtCall>>
retrieveVars == <<rPc, rUseRerank, rUseParent, rDocs, rTrace, flashIn,
                  flashOutcome, rResult, rCandidates, expandIn>>
instanceVars == <<available, flashrank, topKRerank>>
otherVars == <<fOther, kOther>>
vars == <<metadata, filterVars, rerankVars, retrieveVars, instanceVars,
         otherVars>>

----------------------------------------------------------------------------
Min(a, b) == IF a <= b THEN a ELSE b
Max(a, b) == IF a >= b THEN a ELSE b

(* Bounds of the model *)

\* longest document list handed to filter_documents
MaxFilterDocs == 5
\* longest document list handed to CrossEncoderReranker.rerank directly
MaxRerankDocs == 3
\* largest top_k handed to rerank, and largest config.top_k_rerank
MaxTopK == 4
\* largest number of candidates the search returns
MaxCandidates == 6
\* largest input of filter_documents in the termination check
MaxFairDocs == 3
\* longest oracle reply tried by the parsing properties
MaxReplyLen == 6

(* Program constants *)

\* _flashrank_rerank(..., top_k: int = 5)
FlashTopK == 5
\* response[:5]
ReplyPrefix == 5
\* min(score, 100)
ScoreCap == 100
\* return score >= 25, score
RelevantFloor == 25
\* return True, 70
DefaultScore == 70
\* scored_docs[:2]
FallbackKeep == 2

\* min_score values tried: the default 25, no floor, a floor above every score
MinScores == {0, 25, 101}

\* scores the cross-encoder model may give a (query, document) pair
CEScores == {-1, 0, 2}

\* replies of the relevance oracle tried by filter_documents
FilterReplies ==
    { <<"9", "0">>, <<"8", "5">>, <<"1", "0">>, <<"5">>, <<"5", "0">> }

\* characters of the oracle replies tried by the parsing properties
ReplyChars == {"0", "1", "9", "."}

\* every reply of at most MaxReplyLen characters
ParseReplies == UNION { [1 .. n -> ReplyChars] : n \in 0 .. MaxReplyLen }

\* uniform score shifts tried by the monotonicity properties
Deltas == {1, 15, 40}

\* the documents of the model: enough for the longest list of any entry point
AllDocs == 1 .. Max(MaxCandidates, Max(MaxFilterDocs, MaxRerankDocs))

----------------------------------------------------------------------------
(* Sequences *)

\* Python's s[:k] for k >= 0
Take(s, k) == SubSeq(s, 1, Min(k, Len(s)))

Range(s) == { s[i] : i \in DOMAIN s }

\* <<1, ..., n>>
Upto(n) == [i \in 1 .. n |-> i]

RECURSIVE SumSeq(_)
SumSeq(s) == IF s = <<>> THEN 0 ELSE Head(s) + SumSeq(Tail(s))

(* Metadata dictionaries *)

\* the dictionary a freshly created Document carries
FreshMeta(d) == [k \in {"chunk_id"} |-> d]

\* m[key] = value
SetKey(m, key, value) ==
    [k \in DOMAIN m \cup {key} |-> IF k = key THEN value ELSE m[k]]

----------------------------------------------------------------------------
(* list.sort(key=lambda x: x[1], reverse=True): a stable descending sort   *)
(* of a sequence of [doc, score] records.                                  *)

\* e goes after every element whose score is >= its own
InsertDesc_Unstable(sorted, e) ==
    LET before == { i \in DOMAIN sorted : sorted[i].score > e.score }
        n == Cardinality(before)
    IN  SubSeq(sorted, 1, n) \o <<e>> \o SubSeq(sorted, n + 1, Len(sorted))

InsertDesc(sorted, e) ==
    LET before == { i \in DOMAIN sorted : sorted[i].score >= e.score }
        n == Cardinality(before)
    IN  SubSeq(sorted, 1, n) \o <<e>> \o SubSeq(sorted, n + 1, Len(sorted))

RECURSIVE SortDescFrom(_, _)
SortDescFrom(sorted, rest) ==
    IF rest = <<>> THEN sorted
    ELSE SortDescFrom(InsertDesc(sorted, Head(rest)), Tail(rest))

SortDesc(s) == SortDescFrom(<<>>, s)

\* zip(docs, scores)
Zip(docs, scores) == [i \in DOMAIN docs |-> [doc |-> docs[i], score |-> scores[i]]]

DocsOf(scored) == [i \in DOMAIN scored |-> scored[i].doc]
ScoresOf(scored) == [i \in DOMAIN scored |-> scored[i].score]

----------------------------------------------------------------------------
(* CorrectiveRAG.check_relevance *)

Digits == {"0", "1", "2", "3", "4", "5", "6", "7", "8", "9"}

\* str.isdigit on one character
IsDigit(c) == c \in Digits

DigitValue(c) ==
    CASE c = "0" -> 0 [] c = "1" -> 1 [] c = "2" -> 2 [] c = "3" -> 3
      [] c = "4" -> 4 [] c = "5" -> 5 [] c = "6" -> 6 [] c = "7" -> 7
      [] c = "8" -> 8 [] c = "9" -> 9

\* int() of a non-empty string of digits
RECURSIVE ToInt(_)
ToInt(ds) ==
    IF ds = <<>> THEN 0
    ELSE 10 * ToInt(SubSeq(ds, 1, Len(ds) - 1)) + DigitValue(ds[Len(ds)])

\* ''.join(filter(str.isdigit, response[:5]))
DigitsOfPrefix(reply) == SelectSeq(Take(reply, ReplyPrefix), IsDigit)

\* one llm.invoke outcome: the call raised, or it returned the text
Raised == [raised |-> TRUE, text |-> <<>>]
Replied(text) == [raised |-> FALSE, text |-> text]

\* the except branch: return True, 70
DefaultVerdict == [is_relevant |-> TRUE, score |-> DefaultScore]

\* check_relevance taking a reply without digits as the number 0
CheckRelevance_ZeroOnNoDigits(outcome) ==
    IF outcome.raised
    THEN DefaultVerdict
    ELSE LET score == Min(ToInt(DigitsOfPrefix(outcome.text)), ScoreCap)
         IN  [is_relevant |-> score >= RelevantFloor, score |-> score]

\* check_relevance without min(score, 100)
CheckRelevance_NoClamp(outcome) ==
    IF outcome.raised \/ DigitsOfPrefix(outcome.text) = <<>>
    THEN DefaultVerdict
    ELSE LET score == ToInt(DigitsOfPrefix(outcome.text))
         IN  [is_relevant |-> score >= RelevantFloor, score |-> score]

\* check_relevance rejecting the document when the oracle call raises
CheckRelevance_RejectOnFailure(outcome) ==
    IF outcome.raised
    THEN [is_relevant |-> FALSE, score |-> 0]
    ELSE IF DigitsOfPrefix(outcome.text) = <<>>
    THEN DefaultVerdict
    ELSE LET score == Min(ToInt(DigitsOfPrefix(outcome.text)), ScoreCap)
         IN  [is_relevant |-> score >= RelevantFloor, score |-> score]

\* the (is_relevant, score) pair check_relevance returns for an oracle outcome;
\* int('') raises ValueError, which the except branch catches
CheckRelevance(outcome) ==
    IF outcome.raised \/ DigitsOfPrefix(outcome.text) = <<>>
    THEN DefaultVerdict
    ELSE LET score == Min(ToInt(DigitsOfPrefix(outcome.text)), ScoreCap)
         IN  [is_relevant |-> score >= RelevantFloor, score |-> score]

----------------------------------------------------------------------------
(* CorrectiveRAG.filter_documents: the decision taken once every document  *)
(* is scored.  avg_score * 0.6 is a float; the comparisons are modelled    *)
(* exactly, scaled by 5 * len(scored_docs):                                *)
(*     score >= max(min_score, 0.6 * sum / n)                              *)
(*        <=>  5 * n * score >= max(5 * n * min_score, 3 * sum).           *)
(* For integer scores in 0..140, integer min_score and n <= 7 the float    *)
(* comparison of the source and the exact one agree on every input.        *)

\* 5 * n * dynamic_threshold with the average taken the wrong way round
DynamicThreshold5N_Inverted(scored, minScore) ==
    Max(5 * Len(scored) * minScore,
        3 * (ScoreCap * Len(scored) - SumSeq(ScoresOf(scored))))

\* 5 * n * dynamic_threshold, n = len(scored_docs)
DynamicThreshold5N(scored, minScore) ==
    Max(5 * Len(scored) * minScore, 3 * SumSeq(ScoresOf(scored)))

\* score >= dynamic_threshold
MeetsThreshold(score, scored, minScore) ==
    5 * Len(scored) * score >= DynamicThreshold5N(scored, minScore)

\* the threshold filter without the min_score floor
FilterByThreshold_NoFloor(scored, minScore) ==
    LET Keep(e) == 5 * Len(scored) * e.score >= 3 * SumSeq(ScoresOf(scored))
    IN  DocsOf(SelectSeq(scored, Keep))

\* [doc for doc, score in scored_docs if score >= dynamic_threshold]
FilterByThreshold(scored, minScore) ==
    LET Keep(e) == MeetsThreshold(e.score, scored, minScore)
    IN  DocsOf(SelectSeq(scored, Keep))

\* the decision without the fallback branch
FilterOutcome_NoFallback(scored, minScore) ==
    [result |-> FilterByThreshold(scored, minScore), fallback |-> FALSE]

\* the decision with a threshold that grows faster than the scores
FilterOutcome_Steep(scored, minScore) ==
    LET Keep(e) == 5 * Len(scored) * e.score
                     >= Max(5 * Len(scored) * minScore,
                            8 * SumSeq(ScoresOf(scored)))
        filtered == DocsOf(SelectSeq(scored, Keep))
    IN  IF filtered = <<>> /\ scored # <<>>
        THEN [result |-> DocsOf(Take(SortDesc(scored), FallbackKeep)),
              fallback |-> TRUE]
        ELSE [result |-> filtered, fallback |-> FALSE]

\* the decision with the fallback taking the first two in input order
FilterOutcome_UnsortedFallback(scored, minScore) ==
    LET filtered == FilterByThreshold(scored, minScore)
    IN  IF filtered = <<>> /\ scored # <<>>
        THEN [result |-> DocsOf(Take(scored, FallbackKeep)), fallback |-> TRUE]
        ELSE [result |-> filtered, fallback |-> FALSE]

\* the decision dropping every document scored below the relevance floor
FilterOutcome_RequiresRelevant(scored, minScore) ==
    LET Relevant(e) == e.score >= RelevantFloor
        relevant == SelectSeq(scored, Relevant)
        Keep(e) == MeetsThreshold(e.score, scored, minScore)
        filtered == DocsOf(SelectSeq(relevant, Keep))
    IN  IF filtered = <<>> /\ scored # <<>>
        THEN [result |-> DocsOf(Take(SortDesc(scored), FallbackKeep)),
              fallback |-> TRUE]
        ELSE [result |-> filtered, fallback |-> FALSE]

\* the fallback keeping the two lowest scores
FilterOutcome_LowestFallback(scored, minScore) ==
    LET filtered == FilterByThreshold(scored, minScore)
        sorted == SortDesc(scored)
    IN  IF filtered = <<>> /\ scored # <<>>
        THEN [result |-> DocsOf(SubSeq(sorted,
                                       Max(1, Len(sorted) - FallbackKeep + 1),
                                       Len(sorted))),
              fallback |-> TRUE]
        ELSE [result |-> filtered, fallback |-> FALSE]

\* the fallback also taken when a single document passes the threshold
FilterOutcome_FallbackWhenShort(scored, minScore) ==
    LET filtered == FilterByThreshold(scored, minScore)
    IN  IF Len(filtered) < FallbackKeep /\ scored # <<>>
        THEN [result |-> DocsOf(Take(SortDesc(scored), FallbackKeep)),
              fallback |-> TRUE]
        ELSE [result |-> filtered, fallback |-> FALSE]

\* filtered, then the fallback: if not filtered and docs: sort, keep [:2]
FilterOutcome(scored, minScore) ==
    LET filtered == FilterByThreshold(scored, minScore)
    IN  IF filtered = <<>> /\ scored # <<>>
        THEN [result |-> DocsOf(Take(SortDesc(scored), FallbackKeep)),
              fallback |-> TRUE]
        ELSE [result |-> filtered, fallback |-> FALSE]

\* every score of scored raised by delta
Shift(scored, delta) ==
    [i \in DOMAIN scored |->
        [doc |-> scored[i].doc, score |-> scored[i].score + delta]]

----------------------------------------------------------------------------
(* Idle values of the three components *)

FilterIdle ==
    /\ fPc = "idle" /\ fDocs = <<>> /\ fMin = 0 /\ fScored = <<>>
    /\ fResult = <<>> /\ fFallback = FALSE /\ oracleLog = <<>>

RerankIdle ==
    /\ kPc = "idle" /\ kDocs = <<>> /\ kTopK = 0 /\ kScores = <<>>
    /\ kResult = <<>> /\ predictCalls = 0 /\ predictFailed = FALSE
    /\ metaAtCall = metadata

RetrieveIdle ==
    /\ rPc = "idle" /\ rUseRerank = FALSE /\ rUseParent = FALSE
    /\ rDocs = <<>> /\ rTrace = <<>> /\ flashIn = <<>>
    /\ flashOutcome = "none" /\ rResult = <<>>
    /\ rCandidates = <<>> /\ expandIn = <<>>

OthersIdle ==
    /\ fOther = [pc |-> "idle", docs |-> <<>>, min |-> 0, scored |-> <<>>,
                 log |-> <<>>, result |-> <<>>]
    /\ kOther = [pc |-> "idle", docs |-> <<>>, topK |-> 0, scores |-> <<>>,
                 result |-> <<>>]

FreshDocuments == metadata = [d \in AllDocs |-> FreshMeta(d)]

----------------------------------------------------------------------------
(* CorrectiveRAG.filter_documents, one invocation on fresh documents.      *)

\* Entry: `if not docs: return docs`, else start the scoring loop.
FilterCall(docs, minScore) ==
    /\ fPc = "idle"
    /\ fDocs' = docs
    /\ fMin' = minScore
    /\ fScored' = <<>>
    /\ oracleLog' = <<>>
    /\ fFallback' = FALSE
    /\ IF docs = <<>>
       THEN fPc' = "returned" /\ fResult' = docs
       ELSE fPc' = "scoring" /\ fResult' = <<>>
    /\ UNCHANGED <<metadata, rerankVars, retrieveVars, instanceVars, otherVars>>

\* the decision reading the scores back from the documents' metadata
FilterScoreNext_DecidesFromMetadata(outcome) ==
    /\ fPc = "scoring"
    /\ Len(fScored) < Len(fDocs)
    /\ LET doc == fDocs[Len(fScored) + 1]
           verdict == CheckRelevance(outcome)
           scored == Append(fScored, [doc |-> doc, score |-> verdict.score])
           written == [metadata EXCEPT
                          ![doc] = SetKey(@, "relevance_score", verdict.score)]
           read == [i \in DOMAIN scored |->
                       [doc |-> scored[i].doc,
                        score |-> written[scored[i].doc]["relevance_score"]]]
           decided == FilterOutcome(read, fMin)
       IN  /\ metadata' = written
           /\ fScored' = scored
           /\ oracleLog' = Append(oracleLog,
                  [doc |-> doc, outcome |-> outcome, verdict |-> verdict])
           /\ IF Len(scored) = Len(fDocs)
              THEN /\ fPc' = "returned"
                   /\ fResult' = decided.result
                   /\ fFallback' = decided.fallback
              ELSE UNCHANGED <<fPc, fResult, fFallback>>
    /\ UNCHANGED <<fDocs, fMin, rerankVars, retrieveVars, instanceVars, otherVars>>

\* the loop deciding after every document, on the scores collected so far
FilterScoreNext_Incremental(outcome) ==
    /\ fPc = "scoring"
    /\ Len(fScored) < Len(fDocs)
    /\ LET doc == fDocs[Len(fScored) + 1]
           verdict == CheckRelevance(outcome)
           scored == Append(fScored, [doc |-> doc, score |-> verdict.score])
           decided == FilterOutcome(scored, fMin)
       IN  /\ metadata' = [metadata EXCEPT
                  ![doc] = SetKey(@, "relevance_score", verdict.score)]
           /\ fScored' = scored
           /\ oracleLog' = Append(oracleLog,
                  [doc |-> doc, outcome |-> outcome, verdict |-> verdict])
           /\ fResult' = decided.result
           /\ fFallback' = decided.fallback
           /\ fPc' = IF Len(scored) = Len(fDocs) THEN "returned" ELSE "scoring"
    /\ UNCHANGED <<fDocs, fMin, rerankVars, retrieveVars, instanceVars, otherVars>>

\* the loop calling the oracle again for a document whose call raised
FilterScoreNext_RetryOnRaise(outcome) ==
    /\ fPc = "scoring"
    /\ Len(fScored) < Len(fDocs)
    /\ LET doc == fDocs[Len(fScored) + 1]
           verdict == CheckRelevance(outcome)
           scored == Append(fScored, [doc |-> doc, score |-> verdict.score])
           decided == FilterOutcome(scored, fMin)
       IN  /\ oracleLog' = Append(oracleLog,
                  [doc |-> doc, outcome |-> outcome, verdict |-> verdict])
           /\ IF outcome.raised
              THEN UNCHANGED <<metadata, fScored, fPc, fResult, fFallback>>
              ELSE /\ metadata' = [metadata EXCEPT
                          ![doc] = SetKey(@, "relevance_score", verdict.score)]
                   /\ fScored' = scored
                   /\ IF Len(scored) = Len(fDocs)
                      THEN /\ fPc' = "returned"
                           /\ fResult' = decided.result
                           /\ fFallback' = decided.fallback
                      ELSE UNCHANGED <<fPc, fResult, fFallback>>
    /\ UNCHANGED <<fDocs, fMin, rerankVars, retrieveVars, instanceVars, otherVars>>

\* One pass of the loop body: check_relevance on the next document with the
\* oracle's outcome, the metadata write, the append; after the last document
\* the threshold, the filter, the fallback and the return.
FilterScoreNext(outcome) ==
    /\ fPc = "scoring"
    /\ Len(fScored) < Len(fDocs)
    /\ LET doc == fDocs[Len(fScored) + 1]
           verdict == CheckRelevance(outcome)
           scored == Append(fScored, [doc |-> doc, score |-> verdict.score])
           decided == FilterOutcome(scored, fMin)
       IN  /\ metadata' = [metadata EXCEPT
                  ![doc] = SetKey(@, "relevance_score", verdict.score)]
           /\ fScored' = scored
           /\ oracleLog' = Append(oracleLog,
                  [doc |-> doc, outcome |-> outcome, verdict |-> verdict])
           /\ IF Len(scored) = Len(fDocs)
              THEN /\ fPc' = "returned"
                   /\ fResult' = decided.result
                   /\ fFallback' = decided.fallback
              ELSE UNCHANGED <<fPc, fResult, fFallback>>
    /\ UNCHANGED <<fDocs, fMin, rerankVars, retrieveVars, instanceVars, otherVars>>

FilterInit ==
    /\ FreshDocuments
    /\ FilterIdle /\ RerankIdle /\ RetrieveIdle /\ OthersIdle
    /\ available = TRUE /\ flashrank = TRUE /\ topKRerank = 3

FilterNext ==
    \/ \E n \in 0 .. MaxFilterDocs, m \in MinScores : FilterCall(Upto(n), m)
    \/ \E r \in FilterReplies : FilterScoreNext(Replied(r))
    \/ FilterScoreNext(Raised)

SpecFilter == FilterInit /\ [][FilterNext]_vars

\* filter_documents on inputs of at most MaxFairDocs documents
FairNext ==
    \/ \E n \in 0 .. MaxFairDocs, m \in MinScores : FilterCall(Upto(n), m)
    \/ \E r \in FilterReplies : FilterScoreNext(Replied(r))
    \/ FilterScoreNext(Raised)

\* llm.invoke is a blocking call that ends, so the for loop is never stuck on
\* a document.  Weak fairness of one outcome of the call rules out stuttering
\* inside the loop without forcing that outcome: the step is disabled as soon
\* as the invocation has returned.
SpecFilterFair ==
    FilterInit /\ [][FairNext]_vars /\ WF_vars(FilterScoreNext(Raised))

\* filter_documents on one document with the default min_score, the oracle
\* replying any text of ParseReplies: check_relevance on its own
ParseNext ==
    \/ FilterCall(Upto(1), RelevantFloor)
    \/ \E r \in ParseReplies : FilterScoreNext(Replied(r))
    \/ FilterScoreNext(Raised)

SpecParse == FilterInit /\ [][ParseNext]_vars

----------------------------------------------------------------------------
(* CrossEncoderReranker.rerank *)

\* the early-return guard also skipping a single document
RerankSkips_SingleDoc(isAvailable, docs) == ~isAvailable \/ Len(docs) <= 1

\* the early-return guard with `and` in place of `or`
RerankSkips_And(isAvailable, docs) == ~isAvailable /\ docs = <<>>

\* if not self.available or not docs
RerankSkips(isAvailable, docs) == ~isAvailable \/ docs = <<>>

\* the sorted pairs without the [:top_k] slice
TopScored_NoSlice(docs, scores, topK) == SortDesc(Zip(docs, scores))

\* scored_docs = list(zip(docs, scores)); scored_docs.sort(...);
\* scored_docs[:top_k]
TopScored(docs, scores, topK) == Take(SortDesc(Zip(docs, scores)), topK)

\* the annotation loop writing under the key of the relevance filter
Annotate_SharedKey(meta, top) ==
    [d \in DOMAIN meta |->
        IF \E i \in DOMAIN top : top[i].doc = d
        THEN LET last == CHOOSE i \in DOMAIN top :
                            /\ top[i].doc = d
                            /\ \A j \in DOMAIN top : top[j].doc = d => j <= i
             IN  SetKey(meta[d], "relevance_score", top[last].score)
        ELSE meta[d]]

\* the annotation loop also clearing the score of every other document
Annotate_ClearsOthers(meta, top) ==
    [d \in DOMAIN meta |->
        IF \E i \in DOMAIN top : top[i].doc = d
        THEN LET last == CHOOSE i \in DOMAIN top :
                            /\ top[i].doc = d
                            /\ \A j \in DOMAIN top : top[j].doc = d => j <= i
             IN  SetKey(meta[d], "cross_encoder_score", top[last].score)
        ELSE [k \in DOMAIN meta[d] \ {"cross_encoder_score"} |-> meta[d][k]]]

\* the annotation loop keeping a score written by an earlier invocation
Annotate_KeepsEarlier(meta, top) ==
    [d \in DOMAIN meta |->
        IF /\ \E i \in DOMAIN top : top[i].doc = d
           /\ "cross_encoder_score" \notin DOMAIN meta[d]
        THEN LET first == CHOOSE i \in DOMAIN top : top[i].doc = d
             IN  SetKey(meta[d], "cross_encoder_score", top[first].score)
        ELSE meta[d]]

\* for doc, score in scored_docs[:top_k]:
\*     doc.metadata["cross_encoder_score"] = float(score)
\* (float() of a model score keeps its value)
Annotate(meta, top) ==
    [d \in DOMAIN meta |->
        IF \E i \in DOMAIN top : top[i].doc = d
        THEN LET last == CHOOSE i \in DOMAIN top :
                            /\ top[i].doc = d
                            /\ \A j \in DOMAIN top : top[j].doc = d => j <= i
             IN  SetKey(meta[d], "cross_encoder_score", top[last].score)
        ELSE meta[d]]

\* Entry of rerank: the guard, and either the early return of docs[:top_k]
\* or the call of self.model.predict(pairs).
RerankCall(docs, topK) ==
    /\ kPc \in {"idle", "returned", "raised"}
    /\ kDocs' = docs
    /\ kTopK' = topK
    /\ kScores' = <<>>
    /\ predictFailed' = FALSE
    /\ metaAtCall' = metadata
    /\ IF RerankSkips(available, docs)
       THEN kPc' = "returned" /\ kResult' = Take(docs, topK) /\ predictCalls' = 0
       ELSE kPc' = "predict" /\ kResult' = <<>> /\ predictCalls' = 1
    /\ UNCHANGED <<metadata, filterVars, retrieveVars, instanceVars, otherVars>>

\* predict returned one score per pair: sort, slice, annotate, return.
PredictReturn(scores) ==
    /\ kPc = "predict"
    /\ LET top == TopScored(kDocs, scores, kTopK)
       IN  /\ kScores' = scores
           /\ metadata' = Annotate(metadata, top)
           /\ kResult' = DocsOf(top)
           /\ kPc' = "returned"
    /\ UNCHANGED <<kDocs, kTopK, predictCalls, predictFailed, metaAtCall,
                   filterVars, retrieveVars, instanceVars, otherVars>>

\* a failing predict switching the reranker off
PredictRaise_MarksUnavailable ==
    /\ kPc = "predict"
    /\ kPc' = "raised"
    /\ predictFailed' = TRUE
    /\ available' = FALSE
    /\ UNCHANGED <<metadata, kDocs, kTopK, kScores, kResult, predictCalls,
                   metaAtCall, filterVars, retrieveVars, flashrank, topKRerank,
                   otherVars>>

\* predict raised: rerank has no handler, the exception leaves rerank.
PredictRaise ==
    /\ kPc = "predict"
    /\ kPc' = "raised"
    /\ predictFailed' = TRUE
    /\ UNCHANGED <<metadata, kDocs, kTopK, kScores, kResult, predictCalls,
                   metaAtCall, filterVars, retrieveVars, instanceVars, otherVars>>

\* __init__: self.available is set by whether the model loaded
RerankInit ==
    /\ FreshDocuments
    /\ FilterIdle /\ RerankIdle /\ RetrieveIdle /\ OthersIdle
    /\ available \in BOOLEAN
    /\ flashrank = TRUE /\ topKRerank = 3

RerankNext ==
    \/ \E n \in 0 .. MaxRerankDocs, k \in 0 .. MaxTopK : RerankCall(Upto(n), k)
    \/ \E scores \in [1 .. Len(kDocs) -> CEScores] : PredictReturn(scores)
    \/ PredictRaise

SpecRerank == RerankInit /\ [][RerankNext]_vars

----------------------------------------------------------------------------
(* Invocations on shared documents: a second filter_documents and a second *)
(* rerank invocation running between the steps of the first, and the       *)
(* stages invoked again and again on the same documents.                   *)

\* the document lists handed to the invocations
SharedInputs == {<<1>>, <<1, 2>>, <<2, 1>>}

\* the llm.invoke outcomes of these invocations
SharedOutcomes == {Raised, Replied(<<"1", "0">>), Replied(<<"9", "0">>)}

\* the scores model.predict gives in these invocations
SharedScores == {0, 2}

\* the top_k arguments of these invocations
SharedTopKs == {1, 2}

\* filter_documents has returned and its caller holds the result: the locals
\* of the invocation are gone, the documents keep their metadata
FilterDone ==
    /\ fPc = "returned"
    /\ fPc' = "idle"
    /\ fDocs' = <<>> /\ fMin' = 0 /\ fScored' = <<>> /\ fResult' = <<>>
    /\ fFallback' = FALSE /\ oracleLog' = <<>>
    /\ UNCHANGED <<metadata, rerankVars, retrieveVars, instanceVars, otherVars>>

\* Entry of the second filter_documents invocation.
OtherFilterCall(docs, minScore) ==
    /\ fOther.pc = "idle"
    /\ fOther' = [pc |-> IF docs = <<>> THEN "returned" ELSE "scoring",
                  docs |-> docs, min |-> minScore, scored |-> <<>>,
                  log |-> <<>>, result |-> <<>>]
    /\ UNCHANGED <<metadata, filterVars, rerankVars, retrieveVars,
                   instanceVars, kOther>>

\* One pass of the loop body of the second filter_documents invocation.
OtherFilterScoreNext(outcome) ==
    /\ fOther.pc = "scoring"
    /\ Len(fOther.scored) < Len(fOther.docs)
    /\ LET doc == fOther.docs[Len(fOther.scored) + 1]
           verdict == CheckRelevance(outcome)
           scored == Append(fOther.scored,
                            [doc |-> doc, score |-> verdict.score])
           last == Len(scored) = Len(fOther.docs)
       IN  /\ metadata' = [metadata EXCEPT
                  ![doc] = SetKey(@, "relevance_score", verdict.score)]
           /\ fOther' = [fOther EXCEPT
                  !.scored = scored,
                  !.log = Append(@, outcome),
                  !.pc = IF last THEN "returned" ELSE "scoring",
                  !.result = IF last
                             THEN FilterOutcome(scored, fOther.min).result
                             ELSE <<>>]
    /\ UNCHANGED <<filterVars, rerankVars, retrieveVars, instanceVars, kOther>>

\* Entry of the second rerank invocation.
OtherRerankCall(docs, topK) ==
    /\ kOther.pc = "idle"
    /\ kOther' = IF RerankSkips(available, docs)
                 THEN [pc |-> "returned", docs |-> docs, topK |-> topK,
                       scores |-> <<>>, result |-> Take(docs, topK)]
                 ELSE [pc |-> "predict", docs |-> docs, topK |-> topK,
                       scores |-> <<>>, result |-> <<>>]
    /\ UNCHANGED <<metadata, filterVars, rerankVars, retrieveVars,
                   instanceVars, fOther>>

\* predict of the second rerank invocation returned.
OtherPredictReturn(scores) ==
    /\ kOther.pc = "predict"
    /\ LET top == TopScored(kOther.docs, scores, kOther.topK)
       IN  /\ metadata' = Annotate(metadata, top)
           /\ kOther' = [kOther EXCEPT !.pc = "returned", !.scores = scores,
                                       !.result = DocsOf(top)]
    /\ UNCHANGED <<filterVars, rerankVars, retrieveVars, instanceVars, fOther>>

\* predict of the second rerank invocation raised.
OtherPredictRaise ==
    /\ kOther.pc = "predict"
    /\ kOther' = [kOther EXCEPT !.pc = "raised"]
    /\ UNCHANGED <<metadata, filterVars, rerankVars, retrieveVars,
                   instanceVars, fOther>>

\* two filter_documents invocations, their steps interleaved
ConcurrentFilterNext ==
    \/ \E docs \in SharedInputs : FilterCall(docs, RelevantFloor)
    \/ \E o \in SharedOutcomes : FilterScoreNext(o)
    \/ \E docs \in SharedInputs : OtherFilterCall(docs, RelevantFloor)
    \/ \E o \in SharedOutcomes : OtherFilterScoreNext(o)

SpecConcurrentFilter == FilterInit /\ [][ConcurrentFilterNext]_vars

\* two rerank invocations, their steps interleaved
ConcurrentRerankNext ==
    \/ \E docs \in SharedInputs, k \in SharedTopKs : RerankCall(docs, k)
    \/ \E scores \in [1 .. Len(kDocs) -> SharedScores] : PredictReturn(scores)
    \/ PredictRaise
    \/ \E docs \in SharedInputs, k \in SharedTopKs : OtherRerankCall(docs, k)
    \/ \E scores \in [1 .. Len(kOther.docs) -> SharedScores] :
           OtherPredictReturn(scores)
    \/ OtherPredictRaise

SpecConcurrentRerank == RerankInit /\ [][ConcurrentRerankNext]_vars

\* rerank and filter_documents invoked any number of times, in any order, on
\* the same documents
AnnotateNext ==
    \/ \E docs \in SharedInputs : FilterCall(docs, RelevantFloor)
    \/ \E o \in SharedOutcomes : FilterScoreNext(o)
    \/ FilterDone
    \/ \E docs \in SharedInputs, k \in SharedTopKs : RerankCall(docs, k)
    \/ \E scores \in [1 .. Len(kDocs) -> SharedScores] : PredictReturn(scores)
    \/ PredictRaise

SpecAnnotate == RerankInit /\ [][AnnotateNext]_vars

----------------------------------------------------------------------------
(* RetrievalEngine.retrieve and RetrievalEngine._flashrank_rerank.         *)
(* The search and the parent expansion are taken to return: their failures *)
(* belong to the store, not to the pipeline.                               *)

\* the orders self.flashrank.rerank may return the n passages in, as lists
\* of passage ids 0 .. n-1: input order, reversed, rotated by one
FlashRankings(n) ==
    { [j \in 1 .. n |-> j - 1],
      [j \in 1 .. n |-> n - j],
      [j \in 1 .. n |-> j % n] }

\* the fast stage without the [:top_k] slice
FlashReranked_NoSlice(docs, ranking, topK) ==
    [j \in 1 .. Len(ranking) |-> docs[ranking[j] + 1]]

\* top_indices = [r["id"] for r in rerank_results[:top_k]]
\* reranked = [docs[i] for i in top_indices]
FlashReranked(docs, ranking, topK) ==
    [j \in 1 .. Min(topK, Len(ranking)) |-> docs[ranking[j] + 1]]

\* the except branch returning one document too few
FlashOnError_OffByOne(docs, topK) == Take(docs, topK - 1)

\* the except branch: return docs[:top_k]
FlashOnError(docs, topK) == Take(docs, topK)

\* if use_rerank and self.flashrank and len(docs) > 1
FlashGuard == rUseRerank /\ flashrank /\ Len(rDocs) > 1

\* the precision stage guarded without use_rerank
CrossGuard_IgnoresFlag == available /\ Len(rDocs) > 1

\* if use_rerank and self.cross_encoder.is_available and len(docs) > 1
CrossGuard == rUseRerank /\ available /\ Len(rDocs) > 1

\* the parent document of a chunk: two consecutive chunks share a parent
ParentOf(d) == 100 + (d + 1) \div 2

\* self.store.expand_to_parents(docs): the parents of the chunks, each once,
\* in order of first appearance
ExpandToParents(docs) ==
    LET parents == [i \in DOMAIN docs |-> ParentOf(docs[i])]
        First(i) == \A j \in 1 .. i - 1 : parents[j] # parents[i]
        firsts == SelectSeq([i \in DOMAIN docs |-> i], First)
    IN  [i \in DOMAIN firsts |-> parents[firsts[i]]]

\* Step 1 without `if not docs: return []`
RetrieveSearch_NoEarlyReturn(useRerank, useParent, n) ==
    /\ rPc = "idle"
    /\ rUseRerank' = useRerank
    /\ rUseParent' = useParent
    /\ rDocs' = Upto(n)
    /\ rCandidates' = Upto(n)
    /\ rTrace' = <<"search">>
    /\ rPc' = "flash" /\ rResult' = <<>>
    /\ UNCHANGED <<metadata, flashIn, flashOutcome, filterVars, rerankVars,
                   instanceVars, otherVars, expandIn>>

\* Step 1: retriever.invoke(query) returns n candidates; `if not docs: return []`.
RetrieveSearch(useRerank, useParent, n) ==
    /\ rPc = "idle"
    /\ rUseRerank' = useRerank
    /\ rUseParent' = useParent
    /\ rDocs' = Upto(n)
    /\ rCandidates' = Upto(n)
    /\ rTrace' = <<"search">>
    /\ IF n = 0
       THEN rPc' = "returned" /\ rResult' = <<>>
       ELSE rPc' = "flash" /\ rResult' = <<>>
    /\ UNCHANGED <<metadata, flashIn, flashOutcome, filterVars, rerankVars,
                   instanceVars, otherVars, expandIn>>

\* Step 2 not taken.
RetrieveFlashSkip ==
    /\ rPc = "flash"
    /\ ~FlashGuard
    /\ rPc' = "cross"
    /\ UNCHANGED <<metadata, rUseRerank, rUseParent, rDocs, rTrace, flashIn,
                   flashOutcome, rResult, filterVars, rerankVars, instanceVars, otherVars,
                   rCandidates, expandIn>>

\* Step 2, _flashrank_rerank(query, docs) with the model call returning.
RetrieveFlashOk(ranking) ==
    /\ rPc = "flash"
    /\ FlashGuard
    /\ flashIn' = rDocs
    /\ flashOutcome' = "ok"
    /\ rDocs' = FlashReranked(rDocs, ranking, FlashTopK)
    /\ rTrace' = Append(rTrace, "flashrank")
    /\ rPc' = "cross"
    /\ UNCHANGED <<metadata, rUseRerank, rUseParent, rResult, filterVars,
                   rerankVars, instanceVars, otherVars,
                   rCandidates, expandIn>>

\* Step 2, _flashrank_rerank(query, docs) with the model call raising.
RetrieveFlashError ==
    /\ rPc = "flash"
    /\ FlashGuard
    /\ flashIn' = rDocs
    /\ flashOutcome' = "error"
    /\ rDocs' = FlashOnError(rDocs, FlashTopK)
    /\ rTrace' = Append(rTrace, "flashrank")
    /\ rPc' = "cross"
    /\ UNCHANGED <<metadata, rUseRerank, rUseParent, rResult, filterVars,
                   rerankVars, instanceVars, otherVars,
                   rCandidates, expandIn>>

\* Step 3 not taken.
RetrieveCrossSkip ==
    /\ rPc = "cross"
    /\ ~CrossGuard
    /\ rPc' = "expand"
    /\ UNCHANGED <<metadata, rUseRerank, rUseParent, rDocs, rTrace, flashIn,
                   flashOutcome, rResult, filterVars, rerankVars, instanceVars, otherVars,
                   rCandidates, expandIn>>

\* Step 3, self.cross_encoder.rerank(query, docs, top_k=config.top_k_rerank)
\* with predict returning the scores.
RetrieveCrossOk(scores) ==
    /\ rPc = "cross"
    /\ CrossGuard
    /\ LET top == TopScored(rDocs, scores, topKRerank)
       IN  /\ kDocs' = rDocs
           /\ kTopK' = topKRerank
           /\ kScores' = scores
           /\ kResult' = DocsOf(top)
           /\ kPc' = "returned"
           /\ predictCalls' = 1
           /\ predictFailed' = FALSE
           /\ metaAtCall' = metadata
           /\ metadata' = Annotate(metadata, top)
           /\ rDocs' = DocsOf(top)
    /\ rTrace' = Append(rTrace, "cross_encoder")
    /\ rPc' = "expand"
    /\ UNCHANGED <<rUseRerank, rUseParent, flashIn, flashOutcome, rResult,
                   filterVars, instanceVars, otherVars,
                   rCandidates, expandIn>>

\* Step 3 with predict raising: neither rerank nor retrieve has a handler.
RetrieveCrossRaise ==
    /\ rPc = "cross"
    /\ CrossGuard
    /\ kDocs' = rDocs
    /\ kTopK' = topKRerank
    /\ kPc' = "raised"
    /\ predictCalls' = 1
    /\ predictFailed' = TRUE
    /\ metaAtCall' = metadata
    /\ rTrace' = Append(rTrace, "cross_encoder")
    /\ rPc' = "raised"
    /\ UNCHANGED <<metadata, kScores, kResult, rUseRerank, rUseParent, rDocs,
                   flashIn, flashOutcome, rResult, filterVars, instanceVars, otherVars,
                   rCandidates, expandIn>>

\* Step 4 not taken: return docs.
RetrieveReturn ==
    /\ rPc = "expand"
    /\ ~rUseParent
    /\ rResult' = rDocs
    /\ rPc' = "returned"
    /\ UNCHANGED <<metadata, rUseRerank, rUseParent, rDocs, rTrace, flashIn,
                   flashOutcome, filterVars, rerankVars, instanceVars, otherVars,
                   rCandidates, expandIn>>

\* Step 4: docs = self.store.expand_to_parents(docs); return docs.
RetrieveExpand ==
    /\ rPc = "expand"
    /\ rUseParent
    /\ expandIn' = rDocs
    /\ rDocs' = ExpandToParents(rDocs)
    /\ rResult' = ExpandToParents(rDocs)
    /\ rTrace' = Append(rTrace, "expand_to_parents")
    /\ rPc' = "returned"
    /\ UNCHANGED <<metadata, rUseRerank, rUseParent, flashIn, flashOutcome,
                   filterVars, rerankVars, instanceVars, otherVars, rCandidates>>

\* __init__: either reranker may have failed to load; config.top_k_rerank
RetrieveInit ==
    /\ FreshDocuments
    /\ FilterIdle /\ RerankIdle /\ RetrieveIdle /\ OthersIdle
    /\ available \in BOOLEAN
    /\ flashrank \in BOOLEAN
    /\ topKRerank \in 1 .. MaxTopK

RetrieveNext ==
    \/ \E useRerank \in BOOLEAN, useParent \in BOOLEAN, n \in 0 .. MaxCandidates :
           RetrieveSearch(useRerank, useParent, n)
    \/ RetrieveFlashSkip
    \/ \E ranking \in FlashRankings(Len(rDocs)) : RetrieveFlashOk(ranking)
    \/ RetrieveFlashError
    \/ RetrieveCrossSkip
    \/ \E scores \in [1 .. Len(rDocs) -> CEScores] : RetrieveCrossOk(scores)
    \/ RetrieveCrossRaise
    \/ RetrieveReturn
    \/ RetrieveExpand

SpecRetrieve == RetrieveInit /\ [][RetrieveNext]_vars

----------------------------------------------------------------------------
(* Properties of filter_documents (checked under SpecFilter) *)

FilterReturned == fPc = "returned" /\ fDocs # <<>>

\* the relevance score filter_documents recorded on document d
RelevanceScore(d) == metadata[d]["relevance_score"]

\* C1 as stated: for every non-empty input the returned list has at least
\* min(2, len(documents)) documents.
C1_AtLeastTwo ==
    FilterReturned => Len(fResult) >= Min(2, Len(fDocs))

\* C1 as amended: for every non-empty input the returned list is non-empty,
\* and it has at least min(2, len(documents)) documents whenever no document
\* reached the dynamic threshold (the fallback branch ran).
C1_NonEmptyAndFallbackTwo ==
    FilterReturned =>
        /\ Len(fResult) >= 1
        /\ fFallback => Len(fResult) >= Min(2, Len(fDocs))

\* C1 witness: a fallback return of two documents out of three or more, and
\* (separately reachable) a threshold return; here the fallback one.
C1_Witness ==
    /\ FilterReturned /\ fFallback
    /\ Len(fDocs) >= 3 /\ Len(fResult) = 2

\* C8: raising every score by the same delta > 0 never lowers the dynamic
\* threshold max(min_score, 0.6 * mean) (compared scaled by 5 * n).
C8_ThresholdMonotone ==
    FilterReturned =>
        \A delta \in Deltas :
            DynamicThreshold5N(Shift(fScored, delta), fMin)
                >= DynamicThreshold5N(fScored, fMin)

\* C8 witness: a finished invocation whose threshold is the min_score floor
\* and strictly rises under a shift.
C8_Witness ==
    /\ FilterReturned
    /\ DynamicThreshold5N(fScored, fMin) = 5 * Len(fScored) * fMin
    /\ \E delta \in Deltas :
           DynamicThreshold5N(Shift(fScored, delta), fMin)
               > DynamicThreshold5N(fScored, fMin)

\* C9 as stated: raising every score by the same delta > 0 never lowers the
\* number of documents returned, the fallback case included.
C9_CountMonotone ==
    FilterReturned =>
        \A delta \in Deltas :
            Len(FilterOutcome(Shift(fScored, delta), fMin).result)
                >= Len(fResult)

\* C9 as amended: raising every score by the same delta > 0 never lowers the
\* number of documents returned, provided the original invocation kept at
\* least one document by threshold (it did not end in the top-2 fallback).
C9_CountMonotoneOffFallback ==
    (FilterReturned /\ ~fFallback) =>
        \A delta \in Deltas :
            Len(FilterOutcome(Shift(fScored, delta), fMin).result)
                >= Len(fResult)

\* C9 witness: a threshold return of at least two documents whose shifted
\* scores keep strictly more documents.
C9_Witness ==
    /\ FilterReturned /\ ~fFallback /\ Len(fResult) >= 2
    /\ \E delta \in Deltas :
           Len(FilterOutcome(Shift(fScored, delta), fMin).result) > Len(fResult)

\* C10: when some document scores >= max(min_score, 0.6 * mean), the result
\* is exactly the documents with such a score, in input order; scores
\* [90, 85, 10, 5, 50] with min_score 25 keep the documents scoring 90, 85, 50.
C10_ExactlyAboveThreshold ==
    FilterReturned =>
        LET n == Len(fDocs)
            sum == SumSeq([i \in 1 .. n |-> RelevanceScore(fDocs[i])])
            Above(d) == /\ RelevanceScore(d) >= fMin
                        /\ 5 * n * RelevanceScore(d) >= 3 * sum
        IN  /\ (\E i \in 1 .. n : Above(fDocs[i]))
                  => fResult = SelectSeq(fDocs, Above)
            /\ (ScoresOf(fScored) = <<90, 85, 10, 5, 50>> /\ fMin = 25)
                  => fResult = <<fDocs[1], fDocs[2], fDocs[5]>>

\* C10 witness: scenario A has returned.
C10_Witness ==
    /\ FilterReturned /\ fMin = 25 /\ ~fFallback
    /\ ScoresOf(fScored) = <<90, 85, 10, 5, 50>>

----------------------------------------------------------------------------
(* Properties of CrossEncoderReranker.rerank (checked under SpecRerank) *)

\* the position of document d in the argument docs
InputPos(d) == CHOOSE i \in DOMAIN kDocs : kDocs[i] = d

\* rerank returned after a successful predict call
RerankScored == kPc = "returned" /\ predictCalls = 1

\* C3: when the reranker is available, the input non-empty and predict
\* raises, rerank returns docs[:top_k] in input order and writes no score.
C3_PrefixOnPredictFailure ==
    predictFailed =>
        /\ kPc = "returned"
        /\ kResult = Take(kDocs, kTopK)
        /\ metadata = metaAtCall

\* C5: on every path that returns, the result has at most min(k, len(docs))
\* documents, each one a document of the input, none twice.
C5_TruncationBound ==
    kPc = "returned" =>
        /\ Len(kResult) <= Min(kTopK, Len(kDocs))
        /\ Range(kResult) \subseteq Range(kDocs)
        /\ Cardinality(Range(kResult)) = Len(kResult)

\* C5 witness: a scored return that cut the input down to top_k >= 1.
C5_Witness ==
    /\ RerankScored
    /\ kTopK >= 1 /\ kTopK < Len(kDocs) /\ Len(kResult) = kTopK

\* C6: with the model unavailable, or on empty input, rerank returns exactly
\* docs[:k] in input order, never calls the model and leaves all metadata as
\* it was.
C6_IdentityWhenSkipped ==
    (kPc # "idle" /\ (~available \/ kDocs = <<>>)) =>
        /\ kPc = "returned"
        /\ kResult = Take(kDocs, kTopK)
        /\ predictCalls = 0
        /\ kScores = <<>>
        /\ metadata = metaAtCall

\* C6 witness: an unavailable reranker returned a proper, non-empty prefix.
C6_Witness ==
    /\ kPc = "returned" /\ ~available
    /\ Len(kDocs) >= 2 /\ kTopK = 1 /\ kResult = <<kDocs[1]>>

\* C7: documents with equal scores keep their relative input order in the
\* result, and if all scores are equal the result is docs[:top_k].
C7_StableOnTies ==
    RerankScored =>
        /\ \A i, j \in DOMAIN kResult :
               (/\ i < j
                /\ kScores[InputPos(kResult[i])] = kScores[InputPos(kResult[j])])
                   => InputPos(kResult[i]) < InputPos(kResult[j])
        /\ (\A i, j \in DOMAIN kScores : kScores[i] = kScores[j])
               => kResult = Take(kDocs, kTopK)

\* C7 witness: three documents, the first and last tied below the second,
\* all returned.
C7_Witness ==
    /\ RerankScored
    /\ Len(kDocs) = 3 /\ kScores[1] = kScores[3] /\ kScores[2] > kScores[1]
    /\ kResult = <<kDocs[2], kDocs[1], kDocs[3]>>

----------------------------------------------------------------------------
(* Properties of RetrievalEngine (checked under SpecRetrieve) *)

\* C2: once the search has returned, no entry point ends by propagating an
\* exception, whichever model calls fail.
C2_NoExceptionEscapes ==
    rPc # "raised" /\ kPc # "raised"

----------------------------------------------------------------------------
(* Further properties of filter_documents (checked under SpecFilter) *)

\* the position of document d in the argument docs of filter_documents
FilterPos(d) == CHOOSE i \in DOMAIN fDocs : fDocs[i] = d

\* the document at position i ranks before the one at position j: a higher
\* relevance score, or the same score and earlier in the input
RanksBefore(i, j) ==
    \/ RelevanceScore(fDocs[i]) > RelevanceScore(fDocs[j])
    \/ RelevanceScore(fDocs[i]) = RelevanceScore(fDocs[j]) /\ i < j

\* no document of the finished invocation scores >= max(min_score, 0.6 * mean)
NoneAboveThreshold ==
    LET n == Len(fDocs)
        sum == SumSeq([i \in 1 .. n |-> RelevanceScore(fDocs[i])])
    IN  \A i \in 1 .. n :
            \/ RelevanceScore(fDocs[i]) < fMin
            \/ 5 * n * RelevanceScore(fDocs[i]) < 3 * sum

\* C11: when no document reaches the dynamic threshold, the result is the
\* first min(2, len(documents)) documents of the input sorted descending by
\* score, equal scores in input order; three documents scoring 10 with
\* min_score 25 give the first two input documents.
C11_FallbackTopTwo ==
    (FilterReturned /\ NoneAboveThreshold) =>
        /\ Len(fResult) = Min(2, Len(fDocs))
        /\ \A k \in DOMAIN fResult :
               Cardinality({ j \in DOMAIN fDocs :
                               RanksBefore(j, FilterPos(fResult[k])) }) = k - 1
        /\ (ScoresOf(fScored) = <<10, 10, 10>> /\ fMin = 25)
               => fResult = <<fDocs[1], fDocs[2]>>

\* C11 witness: a fallback whose two best documents are not the first two of
\* the input, returned best first.
C11_Witness ==
    /\ FilterReturned /\ NoneAboveThreshold /\ fFallback
    /\ Len(fDocs) >= 3
    /\ FilterPos(fResult[1]) > FilterPos(fResult[2])
    /\ FilterPos(fResult[1]) > 2

\* the number written in each reply of FilterReplies
ReplyValue(text) ==
    CASE text = <<"9", "0">> -> 90
      [] text = <<"8", "5">> -> 85
      [] text = <<"1", "0">> -> 10
      [] text = <<"5">>      -> 5
      [] text = <<"5", "0">> -> 50

\* C12: a document whose oracle call raised gets the verdict (true, 70) and
\* relevance_score 70, every other document is scored from its own reply,
\* the invocation goes on to the remaining documents, and the mean, the
\* threshold and the keep/discard decision use all scores, defaults included.
C12_DefaultOnOracleFailure ==
    /\ Len(oracleLog) = Len(fScored)
    /\ \A i \in DOMAIN oracleLog :
           /\ oracleLog[i].doc = fDocs[i]
           /\ fScored[i].doc = fDocs[i]
           /\ RelevanceScore(fDocs[i]) = fScored[i].score
           /\ IF oracleLog[i].outcome.raised
              THEN /\ oracleLog[i].verdict = [is_relevant |-> TRUE, score |-> 70]
                   /\ fScored[i].score = 70
              ELSE fScored[i].score = ReplyValue(oracleLog[i].outcome.text)
    /\ FilterReturned =>
           LET n == Len(fDocs)
               sum == SumSeq([i \in 1 .. n |-> fScored[i].score])
               Above(d) == /\ fScored[FilterPos(d)].score >= fMin
                           /\ 5 * n * fScored[FilterPos(d)].score >= 3 * sum
           IN  /\ Len(oracleLog) = n
               /\ IF \E i \in 1 .. n : Above(fDocs[i])
                  THEN fResult = SelectSeq(fDocs, Above)
                  ELSE fFallback /\ Len(fResult) = Min(2, n)

\* C12 witness: scenario D, the oracle raised for exactly one of five
\* documents, an earlier one, and the invocation returned with it kept.
C12_Witness ==
    /\ FilterReturned /\ Len(fDocs) = 5
    /\ Cardinality({ i \in DOMAIN oracleLog : oracleLog[i].outcome.raised }) = 1
    /\ oracleLog[2].outcome.raised
    /\ fDocs[2] \in Range(fResult)
    /\ Len(fResult) < 5

----------------------------------------------------------------------------
(* Properties of check_relevance (checked under SpecParse) *)

\* the first maximal run of consecutive digits of w (w holds a digit)
FirstDigitRun(w) ==
    LET start == CHOOSE i \in DOMAIN w :
                     IsDigit(w[i]) /\ \A j \in 1 .. i - 1 : ~IsDigit(w[j])
        end == CHOOSE e \in start .. Len(w) :
                     /\ \A j \in start .. e : IsDigit(w[j])
                     /\ e = Len(w) \/ ~IsDigit(w[e + 1])
    IN  SubSeq(w, start, end)

\* the first 5 characters of the reply hold no digit
NoDigitInPrefix(text) ==
    \A i \in 1 .. Min(ReplyPrefix, Len(text)) : text[i] \notin Digits

\* C13: for every reply with a digit in its first 5 characters the score is
\* the value of the first maximal run of digits within those 5 characters,
\* clamped to 100; digits after a separator are not part of it.
C13_FirstDigitRun ==
    \A i \in DOMAIN oracleLog :
        LET text == oracleLog[i].outcome.text
        IN  (~oracleLog[i].outcome.raised /\ ~NoDigitInPrefix(text)) =>
                oracleLog[i].verdict.score
                    = Min(ToInt(FirstDigitRun(Take(text, ReplyPrefix))), ScoreCap)

\* C14: a reply without a digit in its first 5 characters (the empty reply
\* included) gives the verdict (true, 70), the same as a raising call, and
\* relevance_score 70.
C14_LenientDefault ==
    \A i \in DOMAIN oracleLog :
        (oracleLog[i].outcome.raised \/ NoDigitInPrefix(oracleLog[i].outcome.text))
            => /\ oracleLog[i].verdict = [is_relevant |-> TRUE, score |-> 70]
               /\ RelevanceScore(oracleLog[i].doc) = 70

\* C14 witness: a reply whose only digit is its sixth character.
C14_Witness ==
    /\ FilterReturned /\ Len(oracleLog) = 1
    /\ ~oracleLog[1].outcome.raised
    /\ oracleLog[1].outcome.text = <<".", ".", ".", ".", ".", "9">>
    /\ fResult = fDocs

\* C15: every verdict has its score in 0..100, and every document of a
\* finished invocation has relevance_score in 0..100.
C15_ScoreInRange ==
    /\ \A i \in DOMAIN oracleLog : oracleLog[i].verdict.score \in 0 .. 100
    /\ FilterReturned =>
           \A i \in DOMAIN fDocs : RelevanceScore(fDocs[i]) \in 0 .. 100

\* C15 witness: the digits of the reply spell a number above 100 and the
\* score is 100.
C15_Witness ==
    /\ FilterReturned /\ Len(oracleLog) = 1
    /\ oracleLog[1].outcome.text = <<"9", "9", "9">>
    /\ oracleLog[1].verdict.score = 100

----------------------------------------------------------------------------
(* Further properties of retrieve (checked under SpecRetrieve) *)

Invoked(stage) == \E i \in DOMAIN rTrace : rTrace[i] = stage

TimesInvoked(stage) == Cardinality({ i \in DOMAIN rTrace : rTrace[i] = stage })

\* C16: when the search returns no candidate, retrieve returns the empty
\* list at once and no later stage is invoked, whatever use_rerank and
\* use_parent are.
C16_EmptySearchReturnsAtOnce ==
    (rPc # "idle" /\ rCandidates = <<>>) =>
        /\ rPc = "returned" /\ rResult = <<>>
        /\ rTrace = <<"search">>
        /\ flashOutcome = "none" /\ predictCalls = 0 /\ kPc = "idle"

\* C16 witness: an empty search with both options on has returned.
C16_Witness ==
    /\ rPc = "returned" /\ rCandidates = <<>> /\ rResult = <<>>
    /\ rUseRerank /\ rUseParent /\ flashrank /\ available

\* the invocation is past both reranking stages
PastReranking == rPc \in {"expand", "returned", "raised"}

\* the documents leaving the reranking stages are the search candidates
PassedThrough ==
    /\ rPc = "expand" => rDocs = rCandidates
    /\ (rPc = "returned" /\ ~rUseParent) => rResult = rCandidates
    /\ (rPc = "returned" /\ rUseParent /\ rCandidates # <<>>) =>
           expandIn = rCandidates

\* C17: the fast reranker is invoked iff use_rerank, it is available and
\* there is more than one candidate; the same for the precision reranker;
\* with use_rerank false or both rerankers unavailable no model is called and
\* the candidates pass through in their original order.
C17_RerankersGuarded ==
    /\ rPc \in {"cross", "expand", "returned", "raised"} =>
           (Invoked("flashrank")
               <=> (rUseRerank /\ flashrank /\ Len(rCandidates) > 1))
    /\ PastReranking =>
           /\ Invoked("cross_encoder")
                  <=> (rUseRerank /\ available /\ Len(rCandidates) > 1)
           /\ (~rUseRerank \/ (~flashrank /\ ~available)) =>
                  /\ flashOutcome = "none" /\ predictCalls = 0
                  /\ PassedThrough
                  /\ metadata = [d \in AllDocs |-> FreshMeta(d)]

\* C17 witness: with use_rerank false and both rerankers available, several
\* candidates were returned as the search gave them.
C17_Witness ==
    /\ rPc = "returned" /\ ~rUseRerank /\ ~rUseParent
    /\ flashrank /\ available
    /\ Len(rCandidates) > 1 /\ rResult = rCandidates
    /\ rTrace = <<"search">>

\* position of a stage in the pipeline
StageRank(stage) ==
    CASE stage = "search" -> 1
      [] stage = "flashrank" -> 2
      [] stage = "cross_encoder" -> 3
      [] stage = "expand_to_parents" -> 4

\* C18: the stages occur in the order search, fast reranker, precision
\* reranker, parent expansion, each at most once; the expansion is called
\* exactly once when use_parent is true and there are candidates, never when
\* use_parent is false, and receives the documents surviving the reranking.
C18_StageOrderAndExpansion ==
    /\ \A i, j \in DOMAIN rTrace :
           i < j => StageRank(rTrace[i]) < StageRank(rTrace[j])
    /\ ~rUseParent => ~Invoked("expand_to_parents")
    /\ (rPc \in {"returned", "raised"} /\ rUseParent /\ rCandidates # <<>>) =>
           TimesInvoked("expand_to_parents") = 1
    /\ Invoked("expand_to_parents") =>
           /\ Invoked("cross_encoder") => expandIn = kResult
           /\ (~Invoked("cross_encoder") /\ Invoked("flashrank")) =>
                  /\ Len(expandIn) = Min(FlashTopK, Len(flashIn))
                  /\ Range(expandIn) \subseteq Range(flashIn)
           /\ (~Invoked("cross_encoder") /\ ~Invoked("flashrank")) =>
                  expandIn = rCandidates

----------------------------------------------------------------------------
(* Further properties of rerank (checked under SpecRerank) *)

SingleDocCall == kPc # "idle" /\ Len(kDocs) = 1 /\ kTopK >= 1

\* C19 as stated: rerank on a single document with top_k >= 1 returns that
\* document, adds no score annotation and calls no scoring model.
C19_SingleDocNoModel ==
    SingleDocCall =>
        /\ kPc \in {"predict", "returned"}
        /\ kPc = "returned" => kResult = kDocs
        /\ metadata = metaAtCall
        /\ predictCalls = 0

\* C19: rerank on a single document with top_k >= 1 calls the model exactly
\* when the reranker is available.  Unavailable: the document is returned,
\* nothing is annotated.  Available and predict returns: the document is
\* returned with cross_encoder_score set to its score.  Available and
\* predict raises: nothing is returned and nothing is annotated.
C19_SingleDocScoredWhenAvailable ==
    SingleDocCall =>
        /\ predictCalls = (IF available THEN 1 ELSE 0)
        /\ (kPc = "returned" /\ ~available) =>
               kResult = kDocs /\ metadata = metaAtCall
        /\ (kPc = "returned" /\ available) =>
               /\ kResult = kDocs
               /\ metadata = [metaAtCall EXCEPT ![kDocs[1]] =
                                 SetKey(@, "cross_encoder_score", kScores[1])]
        /\ kPc = "raised" => available /\ metadata = metaAtCall
        /\ kPc = "predict" => available /\ metadata = metaAtCall

\* C19 witness: an available reranker scored a single, so far unscored
\* document and returned it annotated.
C19_Witness ==
    /\ SingleDocCall /\ kPc = "returned" /\ available /\ kTopK = 3
    /\ predictCalls = 1 /\ kResult = kDocs
    /\ "cross_encoder_score" \notin DOMAIN metaAtCall[kDocs[1]]
    /\ metadata[kDocs[1]]["cross_encoder_score"] = kScores[1]

\* C20: no step of any sequence of rerank calls changes self.available, and
\* a reranker that is unavailable never has a model call in progress or
\* counted.
C20_AvailabilityFixed ==
    [][/\ available' = available
       /\ ~available => (predictCalls' = 0 /\ kPc' \notin {"predict", "raised"})]_vars

\* C20 witness: after a call on which predict raised the reranker is still
\* available.
C20_Witness == available /\ kPc = "raised" /\ predictFailed /\ predictCalls = 1

\* the score predict gave document d in this invocation
ModelScore(d) == kScores[InputPos(d)]

\* C21: on the success path the result is the first top_k documents of the
\* input sorted by non-increasing score, and every returned document carries
\* as cross_encoder_score the score the model gave it in this invocation.
C21_TopKSortedAndAnnotated ==
    RerankScored =>
        /\ Len(kResult) = Min(kTopK, Len(kDocs))
        /\ Range(kResult) \subseteq Range(kDocs)
        /\ \A i, j \in DOMAIN kResult : i # j => kResult[i] # kResult[j]
        /\ \A i, j \in DOMAIN kResult :
               i < j => ModelScore(kResult[i]) >= ModelScore(kResult[j])
        /\ \A d \in Range(kResult), e \in Range(kDocs) \ Range(kResult) :
               ModelScore(d) >= ModelScore(e)
        /\ \A d \in Range(kResult) :
               /\ "cross_encoder_score" \in DOMAIN metadata[d]
               /\ metadata[d]["cross_encoder_score"] = ModelScore(d)

\* C21 witness: a document scored in an earlier invocation is returned again
\* with a different score, ahead of a document that came before it in the
\* input, and one document is cut.
C21_Witness ==
    /\ RerankScored /\ Len(kDocs) = 3 /\ kTopK = 2
    /\ kResult = <<kDocs[3], kDocs[1]>>
    /\ "cross_encoder_score" \in DOMAIN metaAtCall[kDocs[3]]
    /\ metaAtCall[kDocs[3]]["cross_encoder_score"] # ModelScore(kDocs[3])
    /\ metadata[kDocs[3]]["cross_encoder_score"] = ModelScore(kDocs[3])

----------------------------------------------------------------------------
(* Call discipline of the stages (an invariant of SpecFilter, SpecRerank   *)
(* and SpecRetrieve alike)                                                 *)

\* C22: the oracle calls of a filter invocation are one per document, in
\* input order, none repeated after a failure: the i-th call is for the i-th
\* document, the calls made so far are as many as the documents scored so
\* far, and a finished invocation made exactly len(docs) calls.  A rerank
\* invocation calls predict at most once, and a retrieve invocation runs
\* each reranking stage at most once.
C22_OneCallPerDocument ==
    /\ Len(oracleLog) = Len(fScored)
    /\ Len(oracleLog) <= Len(fDocs)
    /\ \A i \in DOMAIN oracleLog : oracleLog[i].doc = fDocs[i]
    /\ fPc = "returned" => Len(oracleLog) = Len(fDocs)
    /\ fPc = "scoring" => Len(oracleLog) < Len(fDocs)
    /\ predictCalls \in {0, 1}
    /\ TimesInvoked("flashrank") <= 1
    /\ TimesInvoked("cross_encoder") <= 1

\* C22 witness: five documents, the calls for the second and the fourth
\* raised, five calls in all.
C22_Witness ==
    /\ FilterReturned /\ Len(fDocs) = 5 /\ Len(oracleLog) = 5
    /\ oracleLog[2].outcome.raised /\ oracleLog[4].outcome.raised
    /\ ~oracleLog[3].outcome.raised
    /\ \A i \in 1 .. 5 : oracleLog[i].doc = fDocs[i]

----------------------------------------------------------------------------
(* The life of a document in a filter invocation (checked under            *)
(* SpecFilterFair)                                                         *)

\* the state of the i-th document of docs: not yet in scored_docs, in
\* scored_docs, in the returned list, or left out of it
DocState(i, docs, scored, pc, result) ==
    IF docs[i] \in Range(result) THEN "Kept"
    ELSE IF i > Len(scored) THEN "Unscored"
    ELSE IF pc = "returned" THEN "Discarded"
    ELSE "Scored"

StateNow(i) == DocState(i, fDocs, fScored, fPc, fResult)

\* the moves of the i-th document in one step: none, or forward; the last
\* document is decided in the step that scores it
DocMoves(i) ==
    LET from == StateNow(i)
        to == DocState(i, fDocs', fScored', fPc', fResult')
    IN  \/ to = from
        \/ from = "Unscored" /\ to = "Scored"
        \/ from = "Scored" /\ to \in {"Kept", "Discarded"}
        \/ from = "Unscored" /\ i = Len(fDocs) /\ to \in {"Kept", "Discarded"}

\* the decision is taken once, on the scores of all documents
DecidedOnAllScores ==
    /\ (\E i \in DOMAIN fDocs : StateNow(i) = "Unscored") =>
           /\ \A i \in DOMAIN fDocs : StateNow(i) \in {"Unscored", "Scored"}
           /\ ~fFallback
    /\ FilterReturned =>
           /\ \A i \in DOMAIN fDocs : StateNow(i) \in {"Kept", "Discarded"}
           /\ Len(fScored) = Len(fDocs)
           /\ Range(fResult) = { fDocs[i] : i \in { j \in DOMAIN fDocs :
                                                     StateNow(j) = "Kept" } }

\* C23: a document moves only Unscored -> Scored -> {Kept, Discarded}; none
\* is Kept or Discarded while a document of the invocation is Unscored; every
\* invocation reaches the state where each document is Kept or Discarded; the
\* returned list is the Kept documents.
C23_DocumentLifecycle ==
    /\ []DecidedOnAllScores
    /\ [][fDocs' = fDocs => \A i \in DOMAIN fDocs : DocMoves(i)]_vars
    /\ (fPc = "scoring") ~> FilterReturned

\* C23 witness: of three documents, the first and the last are Kept and the
\* second is Discarded.
C23_Witness ==
    /\ FilterReturned /\ Len(fDocs) = 3 /\ ~fFallback
    /\ StateNow(1) = "Kept" /\ StateNow(2) = "Discarded"
    /\ StateNow(3) = "Kept"

----------------------------------------------------------------------------
(* The verdict flag, the best document and the fallback condition (checked *)
(* under SpecFilter)                                                       *)

\* the score of the i-th document passes the dynamic threshold
PassesThreshold(i) ==
    LET n == Len(fDocs)
        sum == SumSeq([j \in 1 .. n |-> RelevanceScore(fDocs[j])])
        s == RelevanceScore(fDocs[i])
    IN  s >= fMin /\ 5 * n * s >= 3 * sum

\* C25: in every verdict is_relevant is true exactly when score >= 25, and
\* the flag plays no part in the filtering: the returned documents are those
\* passing the threshold, or the fallback's min(2, n), whatever their flags.
C25_FlagIndependentOfFiltering ==
    /\ \A i \in DOMAIN oracleLog :
           oracleLog[i].verdict.is_relevant <=> (oracleLog[i].verdict.score >= 25)
    /\ FilterReturned =>
           IF \E i \in DOMAIN fDocs : PassesThreshold(i)
           THEN /\ ~fFallback
                /\ Range(fResult) =
                       { fDocs[i] : i \in { j \in DOMAIN fDocs : PassesThreshold(j) } }
           ELSE fFallback /\ Len(fResult) = Min(2, Len(fDocs))

\* C25 witness: with min_score below 25, a document whose verdict says not
\* relevant is returned by the threshold path.
C25_Witness ==
    /\ FilterReturned /\ ~fFallback /\ fMin < 25
    /\ \E i \in DOMAIN fDocs :
           /\ ~oracleLog[i].verdict.is_relevant
           /\ fDocs[i] \in Range(fResult)
    /\ \E i \in DOMAIN fDocs : fDocs[i] \notin Range(fResult)

\* the largest relevance score of the input
MaxScore ==
    CHOOSE s \in { RelevanceScore(fDocs[i]) : i \in DOMAIN fDocs } :
        \A i \in DOMAIN fDocs : RelevanceScore(fDocs[i]) <= s

\* C27: for every non-empty input and min_score the returned list holds a
\* document whose score is the maximum of the input.
C27_BestDocumentReturned ==
    FilterReturned =>
        \E k \in DOMAIN fResult : RelevanceScore(fResult[k]) = MaxScore

\* C27 witness: the fallback returned the best document, which came last of
\* four in the input.
C27_Witness ==
    /\ FilterReturned /\ fFallback /\ Len(fDocs) = 4
    /\ RelevanceScore(fDocs[4]) = MaxScore
    /\ \A i \in 1 .. 3 : RelevanceScore(fDocs[i]) < MaxScore
    /\ fResult[1] = fDocs[4]

\* C28: the fallback branch is taken iff every score is strictly below
\* min_score; when some score is >= min_score the threshold path returns a
\* non-empty list.
C28_FallbackIffAllBelowMin ==
    FilterReturned =>
        /\ fFallback <=> \A i \in DOMAIN fDocs : RelevanceScore(fDocs[i]) < fMin
        /\ (\E i \in DOMAIN fDocs : RelevanceScore(fDocs[i]) >= fMin) =>
               fResult # <<>> /\ ~fFallback

\* C28 witness: one score of five reaches min_score and is the only one kept,
\* without the fallback.
C28_Witness ==
    /\ FilterReturned /\ Len(fDocs) = 5 /\ fMin = 25 /\ ~fFallback
    /\ Len(fResult) = 1
    /\ Cardinality({ i \in DOMAIN fDocs : RelevanceScore(fDocs[i]) >= fMin }) = 1

----------------------------------------------------------------------------
(* Documents cut by rerank (checked under SpecRerank) *)

\* C29: rerank leaves the metadata of every document that is not among the
\* returned ones as it was when rerank was entered, so a document cut by
\* this invocation keeps the cross_encoder_score of an earlier one.
C29_CutDocumentsUntouched ==
    kPc # "idle" =>
        /\ \A d \in AllDocs \ Range(kResult) : metadata[d] = metaAtCall[d]
        /\ \A d \in Range(kResult) :
               \A k \in DOMAIN metaAtCall[d] :
                   k # "cross_encoder_score" => metadata[d][k] = metaAtCall[d][k]

\* C29 witness: a document cut by this invocation carries a score that is
\* not the one the model gave it now.
C29_Witness ==
    /\ RerankScored /\ Len(kDocs) = 3 /\ kTopK = 2
    /\ \E d \in Range(kDocs) \ Range(kResult) :
           /\ "cross_encoder_score" \in DOMAIN metadata[d]
           /\ metadata[d]["cross_encoder_score"] # ModelScore(d)

----------------------------------------------------------------------------
(* The width of the fast stage (checked under SpecRetrieve) *)

\* C30: whenever the fast stage has run, by success or by its error
\* fallback, at most 5 documents go on to the precision stage; with both
\* stages run, the list handed to the expansion has at most
\* min(5, top_k_rerank, number of candidates) documents.
C30_FastWidthFive ==
    /\ (Invoked("flashrank") /\ rPc = "cross") =>
           Len(rDocs) = Min(5, Len(rCandidates))
    /\ (Invoked("flashrank") /\ Invoked("cross_encoder")) =>
           /\ Len(kDocs) <= 5
           /\ Len(kDocs) = Min(5, Len(rCandidates))
    /\ (/\ Invoked("flashrank") /\ Invoked("cross_encoder")
        /\ Invoked("expand_to_parents")) =>
           Len(expandIn) <= Min(5, Min(topKRerank, Len(rCandidates)))

\* C30 witness: six candidates, both stages ran, five documents reached the
\* precision stage and top_k_rerank = 4 of them the expansion.
C30_Witness ==
    /\ rPc = "returned" /\ Len(rCandidates) = 6
    /\ Invoked("flashrank") /\ Invoked("cross_encoder")
    /\ Invoked("expand_to_parents")
    /\ Len(kDocs) = 5 /\ topKRerank = 4 /\ Len(expandIn) = 4

----------------------------------------------------------------------------
(* Annotations of rerank and filter_documents on the same documents        *)
(* (checked under SpecAnnotate)                                            *)

\* this step is one pass of the filter loop
FilterWrote == Len(oracleLog') = Len(oracleLog) + 1

\* this step is the return of a scored rerank
RerankWrote == kPc = "predict" /\ kPc' = "returned"

\* key k of document d was added or changed by this step
KeyTouched(d, k) ==
    k \notin DOMAIN metadata[d] \/ metadata'[d][k] # metadata[d][k]

\* C24: over any sequence of rerank and filter invocations on the same
\* documents no key is ever removed; a pass of the filter loop sets
\* relevance_score of its document to the new score and touches nothing
\* else; the return of rerank sets cross_encoder_score of the returned
\* documents to their new scores and touches nothing else; no other step
\* touches any metadata.
C24_EachStageItsOwnKey ==
    [][/\ \A d \in AllDocs :
              /\ DOMAIN metadata[d] \subseteq DOMAIN metadata'[d]
              /\ \A k \in DOMAIN metadata'[d] :
                     KeyTouched(d, k) =>
                         \/ /\ k = "relevance_score" /\ FilterWrote
                            /\ d = oracleLog'[Len(oracleLog')].doc
                         \/ /\ k = "cross_encoder_score" /\ RerankWrote
                            /\ d \in Range(kResult')
       /\ FilterWrote =>
              LET call == oracleLog'[Len(oracleLog')]
              IN  metadata'[call.doc]["relevance_score"] = call.verdict.score
       /\ RerankWrote =>
              \A i \in DOMAIN kDocs :
                  kDocs[i] \in Range(kResult') =>
                      metadata'[kDocs[i]]["cross_encoder_score"] = kScores'[i]
      ]_vars

\* C24 witness: a document carrying both annotations was reranked again; its
\* cross_encoder_score changed and its relevance_score did not.
C24_Witness ==
    /\ RerankScored /\ kResult # <<>>
    /\ LET d == kResult[1]
       IN  /\ "relevance_score" \in DOMAIN metaAtCall[d]
           /\ "cross_encoder_score" \in DOMAIN metaAtCall[d]
           /\ metadata[d]["cross_encoder_score"]
                  # metaAtCall[d]["cross_encoder_score"]
           /\ metadata[d]["relevance_score"] = metaAtCall[d]["relevance_score"]
           /\ metadata[d]["chunk_id"] = d

----------------------------------------------------------------------------
(* Two invocations at the same time (checked under SpecConcurrentFilter;   *)
(* the rerank conjuncts are exercised by SpecConcurrentRerank)             *)

\* what filter_documents returns for docs when the oracle gives outcomes
AloneFilter(docs, outcomes, minScore) ==
    IF docs = <<>> THEN <<>>
    ELSE FilterOutcome(
             [i \in DOMAIN docs |->
                 [doc |-> docs[i], score |-> CheckRelevance(outcomes[i]).score]],
             minScore).result

\* what rerank returns for docs when predict gives scores
AloneRerank(docs, scores, topK) ==
    IF RerankSkips(available, docs) THEN Take(docs, topK)
    ELSE DocsOf(TopScored(docs, scores, topK))

\* each invocation returns the documents, in the order, it returns alone
SameListAsAlone ==
    /\ fPc = "returned" =>
           fResult = AloneFilter(fDocs,
                                 [i \in DOMAIN oracleLog |-> oracleLog[i].outcome],
                                 fMin)
    /\ fOther.pc = "returned" =>
           fOther.result = AloneFilter(fOther.docs, fOther.log, fOther.min)
    /\ kPc = "returned" => kResult = AloneRerank(kDocs, kScores, kTopK)
    /\ kOther.pc = "returned" =>
           kOther.result = AloneRerank(kOther.docs, kOther.scores, kOther.topK)

\* the relevance scores the two filter invocations gave document d
ScoresGiven(d) ==
    { fScored[i].score : i \in { j \in DOMAIN fScored : fScored[j].doc = d } }
        \cup { fOther.scored[i].score :
                   i \in { j \in DOMAIN fOther.scored : fOther.scored[j].doc = d } }

====
